---- MODULE Spec2Model ----
(***************************************************************************)
(* S3Method (modules/core/methods/base.py): the base class of the CRUD     *)
(* method handlers.  The model covers __call__, _permitted, _record_id and *)
(* _extend_view.  A request, the arguments of the call and the behaviour   *)
(* of the subclass-supplied handlers are drawn in the initial state; the   *)
(* actions are the methods of the class, applied to a handler instance     *)
(* that lives on between the calls.                                        *)
(***************************************************************************)
EXTENDS Integers, Sequences, FiniteSets, TLC

VARIABLES self, req, args, sub, env, oracle, op, marg, before, ret, exc, log, steps

vars == <<self, req, args, sub, env, oracle, op, marg, before, ret, exc, log, steps>>

(***************************************************************************)
(* Bounds of the model                                                     *)
(***************************************************************************)
\* number of records a component table holds at most
MaxRows == 2
\* number of view variables passed in **attr besides hide_filter
MaxAttr == 2

(***************************************************************************)
(* Python values                                                           *)
(***************************************************************************)
\* None where a string is expected (method, names, widget id)
Nil == "<None>"
\* None where a record id is expected; Python treats 0 and None alike in
\* every test the class makes on an id ("not component_id", "r.id or ...")
NoId == 0

PyNone == [t |-> "None"]
PyBool(b) == [t |-> "bool", b |-> b]
PyStr(s) == [t |-> "str", s |-> s]
PyDict(d) == [t |-> "dict", d |-> d]
\* a callable: what happens when it is invoked with the request
PyCallable(id, act, val) == [t |-> "callable", id |-> id, act |-> act, val |-> val]

EmptyDict == [k \in {} |-> PyNone]

IsDict(v) == v.t = "dict"
IsCallable(v) == v.t = "callable"

\* dict.update(**other)
DictUpdate(d, other) ==
  [k \in DOMAIN d \cup DOMAIN other |-> IF k \in DOMAIN other THEN other[k] ELSE d[k]]

\* del d[key]
DictDel(d, key) == [k \in DOMAIN d \ {key} |-> d[k]]

\* d[key] = value
DictSet(d, key, value) == [k \in DOMAIN d \cup {key} |-> IF k = key THEN value ELSE d[k]]

\* truth value of a string or None
Truthy(s) == s # Nil /\ s # ""

\* URLs are sequences of tokens; None is the empty sequence
NoURL == <<>>

(***************************************************************************)
(* **attr: the keyword arguments, a sequence of <<key, value>> in the      *)
(* order of the dict                                                       *)
(***************************************************************************)
AttrKeys(attr) == {attr[i][1] : i \in 1..Len(attr)}

\* attr.get(key)
AttrGet(attr, key) ==
  IF key \in AttrKeys(attr)
  THEN (CHOOSE p \in {attr[i] : i \in 1..Len(attr)} : p[1] = key)[2]
  ELSE PyNone

(***************************************************************************)
(* Resources and requests                                                  *)
(***************************************************************************)
NoRes == [tablename |-> Nil]

\* bool(resource): S3Resource is true unless it is None
IsRes(x) == x # NoRes

Master == [prefix |-> "org", name |-> "office", tablename |-> "org_office",
           table |-> "table:org_office"]

\* link.link_id(master_id, component_id) answers found (an id or None)
LinkRes(found) == [prefix |-> "org", name |-> "office_staff",
                   tablename |-> "org_office_staff",
                   table |-> "table:org_office_staff", found |-> found]

\* rows: the primary keys of the component's records, in the order load()
\* yields them; loaded: the records load() fetched; filters: add_filter()
Component(multiple, link, rows) ==
  [prefix |-> "hrm", name |-> "staff", tablename |-> "hrm_staff",
   table |-> "table:hrm_staff", alias |-> "staff", multiple |-> multiple,
   link |-> link, rows |-> rows, loaded |-> <<>>, filters |-> <<>>]

\* r.actuate_link(): decided by the request; the only part of the request
\* the class changes before asking is r.component_id
ActuateLink(r) == r.actuate[r.component_id # NoId]

\* component.load(start=0, limit=1)
Load(component) ==
  [component EXCEPT !.loaded = SubSeq(component.rows, 1,
                                      IF Len(component.rows) < 1 THEN 0 ELSE 1)]

(***************************************************************************)
(* _record_id(r), a static method: the request after the call and the      *)
(* value returned                                                          *)
(***************************************************************************)
\* a variant that enforces the first record of any component
EnforceFirstOfAny(r) == r.component_id = NoId

\* "Enforce first component record" applies
EnforceFirst(r) == ~r.component.multiple /\ r.component_id = NoId

FirstRecord(r) ==
  LET component == Load(r.component)
  IN IF Len(component.loaded) > 0
     THEN LET component_id == component.loaded[1]
          IN [r |-> [r EXCEPT
                       !.link_id = IF IsRes(r.link) /\ r.id # NoId
                                   THEN r.link.found ELSE @,
                       !.component_id = component_id,
                       !.component = [component EXCEPT
                                        !.filters = Append(@, component_id)]],
              component_id |-> component_id]
     ELSE [r |-> [r EXCEPT !.component = component],
           component_id |-> r.component_id]

RecordIdOf(r) ==
  IF IsRes(r.component)
  THEN LET e == IF EnforceFirst(r) THEN FirstRecord(r)
                ELSE [r |-> r, component_id |-> r.component_id]
       IN [r |-> e.r,
           ret |-> IF ~IsRes(e.r.link) \/ ActuateLink(e.r)
                   THEN e.component_id ELSE e.r.link_id]
  ELSE [r |-> r, ret |-> r.id]

(***************************************************************************)
(* _extend_view(output, r, **attr), a static method                        *)
(***************************************************************************)
\* a variant that merges every dict, also one passed as a value
StoreDisplayMergingValues(d, key, handler, display, resolve) ==
  IF IsDict(display) THEN DictUpdate(d, display.d)
  ELSE IF display # PyNone THEN DictSet(d, key, display)
  ELSE IF key \in DOMAIN d /\ IsCallable(handler) THEN DictDel(d, key)
  ELSE d

\* lines 438-443: what one view variable does to the output dict
StoreDisplay(d, key, handler, display, resolve) ==
  IF IsDict(display) /\ resolve THEN DictUpdate(d, display.d)
  ELSE IF display # PyNone THEN DictSet(d, key, display)
  ELSE IF key \in DOMAIN d /\ IsCallable(handler) THEN DictDel(d, key)
  ELSE d

\* the handler raised TypeError: lines 427-431
OnTypeError(d, key, handler) == d

\* one pass of the loop body for attr[key] = handler; st.output is a dict
ViewStep(st, key, handler) ==
  IF IsCallable(handler)
  THEN LET st1 == [st EXCEPT !.invoked = Append(@, handler.id)]
       IN CASE handler.act = "return" ->
                 [st1 EXCEPT !.output = PyDict(StoreDisplay(st.output.d, key,
                                                 handler, handler.val, TRUE))]
            [] handler.act = "TypeError" ->
                 [st1 EXCEPT !.output = PyDict(OnTypeError(st.output.d, key, handler))]
            [] OTHER -> [st1 EXCEPT !.exc = handler.act]
  ELSE [st EXCEPT !.output = PyDict(StoreDisplay(st.output.d, key,
                                                handler, handler, FALSE))]

RECURSIVE ViewLoop(_, _, _)
ViewLoop(st, attr, i) ==
  IF i > Len(attr) \/ st.exc # Nil THEN st
  ELSE LET st1 == ViewStep(st, attr[i][1], attr[i][2])
       IN ViewLoop([st1 EXCEPT !.steps = Append(@, st1.output)], attr, i + 1)

\* output: the output object after the call; exc: the exception that left
\* it (Nil: none); invoked: the callables invoked; steps: the output after
\* each view variable
ExtendViewOf(output, r, attr) ==
  LET st == [output |-> output, exc |-> Nil, invoked |-> <<>>, steps |-> <<>>]
  IN IF r.interactive /\ IsDict(output) THEN ViewLoop(st, attr, 1) ELSE st

(***************************************************************************)
(* __call__(r, method, widget_id, **attr)                                  *)
(***************************************************************************)
\* lines 95-98
RequestMethod(r, method) == IF method # Nil THEN method ELSE r.method

\* a variant that overlooks the component id
ComponentDefaultByMultiple(r) ==
  IF r.component.multiple THEN "list" ELSE "read"

\* lines 105-109: the default method on a component
ComponentDefault(r) ==
  IF r.component.multiple /\ r.component_id = NoId THEN "list" ELSE "read"

\* lines 117-121: the default method on the master resource
MasterDefault(r) ==
  IF r.id # NoId \/ r.method \in {"read", "display"} THEN "read" ELSE "list"

\* a variant that never asks actuate_link()
TargetResourceAlwaysLink(r) ==
  IF IsRes(r.component)
  THEN IF IsRes(r.component.link) THEN r.component.link ELSE r.component
  ELSE r.resource

\* lines 110-113 and 116: the target resource
TargetResource(r) ==
  IF IsRes(r.component)
  THEN IF IsRes(r.component.link) /\ ~ActuateLink(r)
       THEN r.component.link ELSE r.component
  ELSE r.resource

\* a variant that looks up "_default" before the component
HideFilterDefaultFirst(r, attr) ==
  LET setting == AttrGet(attr, "hide_filter")
      hide_filter ==
        IF IsDict(setting)
        THEN IF "_default" \in DOMAIN setting.d
             THEN setting.d["_default"]
             ELSE IF r.component_name \in DOMAIN setting.d
                  THEN setting.d[r.component_name]
                  ELSE PyNone
        ELSE setting
  IN IF hide_filter = PyNone THEN PyBool(IsRes(r.component)) ELSE hide_filter

\* lines 147-158: the hide_filter policy of an interactive request
HideFilter(r, attr) ==
  LET setting == AttrGet(attr, "hide_filter")
      hide_filter ==
        IF IsDict(setting)
        THEN IF r.component_name \in DOMAIN setting.d
             THEN setting.d[r.component_name]
             ELSE IF "_default" \in DOMAIN setting.d
                  THEN setting.d["_default"]
                  ELSE PyNone
        ELSE setting
  IN IF hide_filter = PyNone THEN PyBool(IsRes(r.component)) ELSE hide_filter

\* str.replace(placeholder, lastid) on a URL
Replace(url, placeholder, lastid) ==
  [i \in 1..Len(url) |-> IF url[i] = placeholder THEN lastid ELSE url[i]]

\* lines 172-177: redirection
Redirect(next, lastid) ==
  IF next # NoURL /\ Truthy(lastid)
  THEN Replace(Replace(next, "%5Bid%5D", lastid), "[id]", lastid)
  ELSE next

\* lines 123-127
SetTarget(s, resource) ==
  [s EXCEPT !.prefix = resource.prefix,
            !.name = resource.name,
            !.tablename = resource.tablename,
            !.table = resource.table,
            !.resource = resource]

\* a variant that misspells the method
JustInitMisspelt(method) == method = "init"

\* lines 129-131: just init, don't execute
JustInit(method) == method = "_init"

\* lines 162-182: apply the method; h is what the subclass's handlers do.
\* Every S3Method has a widget method, so hasattr(self, "widget") holds.
\* If _extend_view raises, exc names the exception and ret is the output
\* object as the exception left it.
ApplyMethod(s, r, widget_id, attr, h) ==
  IF Truthy(widget_id)
  THEN [self |-> s, r |-> r, ret |-> h.widget, exc |-> Nil, log |-> <<"widget">>]
  ELSE LET next == Redirect(IF h.sets_next THEN h.next ELSE s.next, h.lastid)
           r1 == IF ~Truthy(h.error) THEN [r EXCEPT !.next = next] ELSE r
           view == ExtendViewOf(h.output, r1, attr)
       IN [self |-> [s EXCEPT !.next = next], r |-> r1,
           ret |-> view.output, exc |-> view.exc,
           log |-> <<"apply_method", "_extend_view">> \o view.invoked]

\* self.request refers to the request object r, which the variable req holds
CallOf(s0, r0, method, widget_id, attr, h, response) ==
  LET rid == RecordIdOf(r0)
      r == rid.r
      m0 == RequestMethod(r0, method)
      m == IF Truthy(m0) THEN m0
           ELSE IF IsRes(r.component) THEN ComponentDefault(r)
                ELSE MasterDefault(r)
      s1 == SetTarget([s0 EXCEPT !.request = "r",
                                 !.download_url = response.download_url,
                                 !.method = m,
                                 !.record_id = rid.ret],
                      TargetResource(r))
  IN IF JustInit(m)
     THEN [self |-> s1, r |-> r, ret |-> PyNone, exc |-> Nil, log |-> <<>>]
     ELSE ApplyMethod([s1 EXCEPT !.hide_filter =
                                    IF r.interactive THEN HideFilter(r, attr)
                                    ELSE PyBool(TRUE)],
                      r, widget_id, attr, h)

(***************************************************************************)
(* _permitted(method)                                                      *)
(***************************************************************************)
\* lines 262-266
PermissionMethod(s, method) ==
  LET m == IF ~Truthy(method) THEN s.method ELSE method
  IN IF m \in {"list", "datatable", "datalist"} THEN "read" ELSE m

\* a variant in which any tuple exempts every component
NeedsMasterAccessUnlessTuple(r, writable) == ~(writable.t = "tuple")

\* lines 278-282: the master record must be writable to create a component
NeedsMasterAccess(r, writable) ==
  ~(writable.t = "tuple") \/ r.component_name \notin writable.items

\* ret: the result; calls: the calls of has_permission, with their answers.
\* master and final are the answers has_permission gives
PermittedOf(s, r, method, writable, master, final) ==
  LET m == PermissionMethod(s, method)
      masterCall == [method |-> "update", table |-> r.table,
                     record_id |-> r.id, answer |-> master]
  IN IF ~IsRes(r.component)
     THEN [ret |-> final,
           calls |-> <<[method |-> m, table |-> r.table,
                        record_id |-> r.id, answer |-> final]>>]
     ELSE LET finalCall == [method |-> m, table |-> r.component.table,
                            record_id |-> r.component_id, answer |-> final]
          IN IF m = "create" /\ NeedsMasterAccess(r, writable)
             THEN IF ~master
                  THEN [ret |-> FALSE, calls |-> <<masterCall>>]
                  ELSE [ret |-> final, calls |-> <<masterCall, finalCall>>]
             ELSE [ret |-> final, calls |-> <<finalCall>>]

(***************************************************************************)
(* The inputs: requests, arguments, handlers                               *)
(***************************************************************************)
MasterIds == {NoId, 1}
ComponentIds == {NoId} \cup {10 + i : i \in 1..MaxRows}
LinkIds == {NoId, 21}
FoundIds == {NoId, 22}

\* the records of the component: none, or k of them, the newest first
RowSeqs == {[i \in 1..k |-> 11 + k - i] : k \in 0..MaxRows}

Actuations == [BOOLEAN -> BOOLEAN]

Links == {NoRes} \cup {LinkRes(f) : f \in FoundIds}

Components(links) ==
  {Component(mu, l, rows) : mu \in BOOLEAN, l \in links, rows \in RowSeqs}

\* r.link is the link of the component, r.component_name its alias, and
\* only a linked component has a link id; r.table, r.tablename, r.name and
\* r.prefix are those of r.resource
Request(id, method, interactive, component, component_id, link_id, next, actuate) ==
  [id |-> id, method |-> method, interactive |-> interactive,
   resource |-> Master, prefix |-> Master.prefix, name |-> Master.name,
   tablename |-> Master.tablename, table |-> Master.table,
   component |-> component,
   component_name |-> IF IsRes(component) THEN component.alias ELSE Nil,
   component_id |-> component_id,
   link |-> IF IsRes(component) THEN component.link ELSE NoRes,
   link_id |-> link_id, next |-> next, actuate |-> actuate]

Requests(ids, methods, interactives, components, nexts) ==
  {Request(id, m, i, NoRes, NoId, NoId, n, [b \in BOOLEAN |-> TRUE]) :
     id \in ids, m \in methods, i \in interactives, n \in nexts}
  \cup
  {Request(id, m, i, c, cid, NoId, n, [b \in BOOLEAN |-> TRUE]) :
     id \in ids, m \in methods, i \in interactives, n \in nexts,
     c \in {x \in components : IsRes(x) /\ ~IsRes(x.link)}, cid \in ComponentIds}
  \cup
  {Request(id, m, i, c, cid, lid, n, a) :
     id \in ids, m \in methods, i \in interactives, n \in nexts,
     c \in {x \in components : IsRes(x) /\ IsRes(x.link)}, cid \in ComponentIds,
     lid \in LinkIds, a \in Actuations}

\* the view variables and their handlers
ViewKeys == {"rheader", "title", "sidebar"}

Text(s) == PyStr(s)

ViewValues ==
  {PyNone, Text("text"),
   PyDict([k \in {"title"} |-> Text("plain")]),
   PyCallable("f_dict", "return",
              PyDict([k \in {"title", "extra"} |-> Text("from f_dict")])),
   PyCallable("f_str", "return", Text("html")),
   PyCallable("f_none", "return", PyNone),
   PyCallable("f_args", "TypeError", PyNone),
   PyCallable("f_fail", "ValueError", PyNone)}

\* **attr of at most n view variables
RECURSIVE Attrs(_)
Attrs(n) ==
  IF n = 0 THEN {<<>>}
  ELSE LET shorter == Attrs(n - 1)
       IN shorter \cup
          {Append(a, <<k, v>>) : a \in {x \in shorter : Len(x) = n - 1},
                                 k \in ViewKeys, v \in ViewValues}

DistinctKeys(attr) == Cardinality(AttrKeys(attr)) = Len(attr)

ViewAttrs == {a \in Attrs(MaxAttr) : DistinctKeys(a)}

\* the hide_filter settings: None, a boolean, or a dict by component alias
\* (Nil: the master resource)
HideValues == {PyNone, PyBool(TRUE), PyBool(FALSE)}
HideAliases == {Nil, "staff", "_default"}
HideDicts ==
  UNION {[keys -> HideValues] : keys \in SUBSET HideAliases}
HideSettings == HideValues \cup {PyDict(d) : d \in HideDicts}

HideAttrs == {<<>>} \cup {<< <<"hide_filter", h>> >> : h \in HideSettings}

\* the output objects of a handler
Outputs ==
  {PyDict(EmptyDict),
   PyDict([k \in {"rheader"} |-> Text("old")]),
   PyDict([k \in {"rheader", "title"} |-> Text("old")]),
   Text("xml")}

\* what the handlers of the subclass do: the output of apply_method and of
\* widget, the self.next apply_method sets (if it sets one), and the
\* resource.lastid and response.error it leaves
Handler(output, widget, sets_next, next, lastid, error) ==
  [output |-> output, widget |-> widget, sets_next |-> sets_next,
   next |-> next, lastid |-> lastid, error |-> error]

\* the stubs of the base class: lines 187-199 and 202-244
Stub == Handler(PyDict(EmptyDict), PyNone, FALSE, NoURL, Nil, Nil)

Handlers ==
  {Stub,
   Handler(PyDict(EmptyDict), Text("widget"), TRUE, <<"office/", "[id]">>, "5", Nil),
   Handler(Text("xml"), PyNone, TRUE, <<"office/", "%5Bid%5D", "/read">>, "5", "failed"),
   Handler(PyDict([k \in {"rheader"} |-> Text("old")]), PyNone, TRUE,
           <<"office/">>, Nil, Nil)}

\* the ignore_master_access setting of the master table
Tuple(items) == [t |-> "tuple", items |-> items]
Writables ==
  {PyNone, PyBool(TRUE), Text("staff"), Tuple({}), Tuple({"staff"}),
   Tuple({"task", "staff"}), Tuple({"task"})}

Environment(writable) ==
  [response |-> [download_url |-> "/default/download"], writable |-> writable]

CallMethods == {Nil, "", "_init", "create"}
PermissionMethods == {Nil, "", "create", "read", "list", "datatable", "update"}

(***************************************************************************)
(* The state after construction (lines 52-72), with the inputs drawn       *)
(***************************************************************************)
Constructed ==
  [request |-> Nil, method |-> Nil, download_url |-> Nil,
   hide_filter |-> PyBool(FALSE), prefix |-> Nil, name |-> Nil,
   resource |-> NoRes, tablename |-> Nil, table |-> Nil,
   record_id |-> NoId, next |-> NoURL]

InitWith(requests, widgets, attrs, handlers, writables) ==
  /\ self = Constructed
  /\ req \in requests
  /\ args \in {[widget_id |-> w, attr |-> a] : w \in widgets, a \in attrs}
  /\ sub \in handlers
  /\ env \in {Environment(w) : w \in writables}
  /\ oracle = [master |-> TRUE, final |-> TRUE]
  /\ op = "__init__"
  /\ marg = Nil
  /\ before = [self |-> Constructed, req |-> req]
  /\ ret = PyNone
  /\ exc = Nil
  /\ log = <<>>
  /\ steps = <<>>

(***************************************************************************)
(* The operations                                                          *)
(***************************************************************************)
Call(method) ==
  \E c \in {CallOf(self, req, method, args.widget_id, args.attr, sub, env.response)} :
     /\ self' = c.self
     /\ req' = c.r
     /\ ret' = c.ret
     /\ exc' = c.exc
     /\ log' = c.log
     /\ steps' = <<>>
     /\ op' = "__call__"
     /\ marg' = method
     /\ before' = [self |-> self, req |-> req]
     /\ UNCHANGED <<args, sub, env, oracle>>

RecordId ==
  \E c \in {RecordIdOf(req)} :
     /\ req' = c.r
     /\ ret' = c.ret
     /\ exc' = Nil
     /\ log' = <<>>
     /\ steps' = <<>>
     /\ op' = "_record_id"
     /\ marg' = Nil
     /\ before' = [self |-> self, req |-> req]
     /\ UNCHANGED <<self, args, sub, env, oracle>>

ExtendView ==
  \E c \in {ExtendViewOf(sub.output, req, args.attr)} :
     /\ ret' = c.output
     /\ exc' = c.exc
     /\ log' = c.invoked
     /\ steps' = c.steps
     /\ op' = "_extend_view"
     /\ marg' = Nil
     /\ before' = [self |-> self, req |-> req]
     /\ UNCHANGED <<self, req, args, sub, env, oracle>>

\* _permitted reads self.request: the handler has been invoked from a request.
\* oracle: the answers auth.s3_has_permission gives to the check of the
\* master record and to the check of the target record
Permitted(method, master, final) ==
  /\ self.request # Nil
  /\ oracle' = [master |-> master, final |-> final]
  /\ \E c \in {PermittedOf(self, req, method, env.writable, master, final)} :
        /\ ret' = c.ret
        /\ log' = c.calls
  /\ exc' = Nil
  /\ steps' = <<>>
  /\ op' = "_permitted"
  /\ marg' = method
  /\ before' = [self |-> self, req |-> req]
  /\ UNCHANGED <<self, req, args, sub, env>>

DoCall == \E method \in CallMethods : Call(method)

DoPermitted ==
  \E method \in PermissionMethods, master \in BOOLEAN, final \in BOOLEAN :
    Permitted(method, master, final)

(***************************************************************************)
(* Specifications                                                          *)
(***************************************************************************)
Init ==
  InitWith(Requests({1}, {Nil}, BOOLEAN,
                    {NoRes, Component(FALSE, LinkRes(22), <<11>>)},
                    {NoURL}),
           {Nil}, {<<>>, << <<"rheader", PyCallable("f_none", "return", PyNone)>> >>},
           {Stub}, {PyNone})

Next == DoCall \/ DoPermitted \/ RecordId \/ ExtendView

Spec == Init /\ [][Next]_vars

\* the target of a request: every component, link and id
InitTarget ==
  InitWith(Requests(MasterIds, {Nil, "", "read"}, {TRUE},
                    {NoRes} \cup Components(Links), {NoURL}),
           {Nil}, {<<>>}, {h \in Handlers : h.output = PyDict(EmptyDict)},
           {PyNone})

NextTarget == DoCall \/ RecordId

SpecTarget == InitTarget /\ [][NextTarget]_vars

\* the hide_filter settings
InitFilter ==
  InitWith(Requests({1}, {Nil}, BOOLEAN,
                    {NoRes} \cup {Component(TRUE, NoRes, rows) : rows \in RowSeqs},
                    {NoURL}),
           {Nil, "w1"}, HideAttrs, {Stub}, {PyNone})

NextFilter == DoCall \/ RecordId

SpecFilter == InitFilter /\ [][NextFilter]_vars

\* the view variables
InitView ==
  InitWith(Requests({1}, {Nil}, BOOLEAN, {NoRes}, {NoURL}),
           {Nil}, ViewAttrs,
           {Handler(o, PyNone, FALSE, NoURL, Nil, Nil) : o \in Outputs},
           {PyNone})

NextView == ExtendView \/ DoCall

SpecView == InitView /\ [][NextView]_vars

\* the permissions
InitPermitted ==
  InitWith(Requests({1}, {Nil}, {TRUE},
                    {NoRes, Component(TRUE, NoRes, <<11>>)}, {NoURL}),
           {Nil}, {<<>>}, {Stub}, Writables)

NextPermitted == DoCall \/ DoPermitted

SpecPermitted == InitPermitted /\ [][NextPermitted]_vars

(***************************************************************************)
(* Properties                                                              *)
(***************************************************************************)
\* the last operation was __call__ / _record_id / _extend_view / _permitted
Called == op = "__call__"
\* the request as it was passed to the last operation
given == before.req

\* the target the request names: the link resource where a linked component
\* is not actuated, else the component, else the master resource
LinkIsTarget(r) == IsRes(r.component) /\ IsRes(r.link) /\ ~ActuateLink(r)
ComponentIsTarget(r) == IsRes(r.component) /\ ~LinkIsTarget(r)

\* C1: on a request with a component, with no method argument and no
\* r.method, __call__ resolves self.method to "list" if the component is
\* multiple and the request gives no component id, and to "read" otherwise.
C1_DefaultMethodOnComponent ==
  (Called /\ IsRes(given.component) /\ marg = Nil /\ given.method \in {Nil, ""})
    => IF given.component.multiple /\ given.component_id = NoId
       THEN self.method = "list"
       ELSE self.method = "read"

C1_Witness ==
  /\ Called /\ IsRes(given.component) /\ marg = Nil /\ given.method = Nil
  /\ given.component.multiple /\ given.component_id = NoId
  /\ given.component.rows # <<>>
  /\ self.method = "list"

\* C4: when the resolved method is "_init", __call__ returns None, calls
\* neither apply_method nor widget nor _extend_view, leaves r.next and
\* self.hide_filter as they were, and sets resource, table, tablename,
\* prefix, name and record_id of the handler to the target of the request.
C4_InitOnly ==
  (Called /\ self.method = "_init")
    => /\ ret = PyNone
       /\ exc = Nil
       /\ log = <<>>
       /\ req.next = given.next
       /\ self.hide_filter = before.self.hide_filter
       /\ LET target == IF LinkIsTarget(req) THEN req.link
                        ELSE IF ComponentIsTarget(req) THEN req.component
                        ELSE req.resource
          IN /\ self.resource = target
             /\ self.table = target.table
             /\ self.tablename = target.tablename
             /\ self.prefix = target.prefix
             /\ self.name = target.name
       /\ self.record_id = IF LinkIsTarget(req) THEN req.link_id
                           ELSE IF ComponentIsTarget(req) THEN req.component_id
                           ELSE req.id

C4_Witness ==
  /\ Called /\ self.method = "_init"
  /\ before.self.hide_filter = PyBool(TRUE)
  /\ given.next # NoURL
  /\ LinkIsTarget(req)
  /\ self.tablename = "org_office_staff"
  /\ self.record_id = 22

\* C7: _record_id on a component that is not multiple, without component
\* id, loads at most one record; if there is one it sets r.component_id to
\* its primary key, filters the component to it and, with a link and a
\* master id, sets r.link_id; if there is none r.component_id and r.link_id
\* stay.  On a multiple component or with a component id the request is
\* not modified.
C7_FirstComponentRecord ==
  op = "_record_id" =>
    IF IsRes(given.component) /\ ~given.component.multiple
       /\ given.component_id = NoId
    THEN /\ Len(req.component.loaded) <= 1
         /\ IF given.component.rows # <<>>
            THEN /\ req.component.loaded = <<given.component.rows[1]>>
                 /\ req.component_id = given.component.rows[1]
                 /\ req.component.filters =
                      Append(given.component.filters, given.component.rows[1])
                 /\ req.link_id = IF IsRes(given.link) /\ given.id # NoId
                                  THEN given.link.found ELSE given.link_id
            ELSE /\ req.component_id = given.component_id
                 /\ req.link_id = given.link_id
                 /\ req.component.filters = given.component.filters
    ELSE req = given

C7_Witness ==
  /\ op = "_record_id"
  /\ IsRes(given.component) /\ ~given.component.multiple
  /\ given.component_id = NoId /\ Len(given.component.rows) = 2
  /\ given.link_id = 21 /\ given.id = 1
  /\ req.component_id = 12 /\ req.link_id = 22
  /\ ret = 22

\* C8: after __call__ the record id of the handler matches its resource:
\* the link resource and r.link_id for a linked component that is not
\* actuated, the component and r.component_id for any other component,
\* r.resource and r.id without a component; prefix, name, tablename and
\* table of the handler are those of its resource.
C8_TargetRecordMatchesResource ==
  Called =>
    /\ LinkIsTarget(req) =>
         self.resource = req.link /\ self.record_id = req.link_id
    /\ ComponentIsTarget(req) =>
         self.resource = req.component /\ self.record_id = req.component_id
    /\ ~IsRes(req.component) =>
         self.resource = req.resource /\ self.record_id = req.id
    /\ self.prefix = self.resource.prefix
    /\ self.name = self.resource.name
    /\ self.tablename = self.resource.tablename
    /\ self.table = self.resource.table

C8_Witness ==
  /\ Called /\ self.method # "_init"
  /\ IsRes(req.link) /\ ActuateLink(req)
  /\ given.component_id = NoId /\ req.component_id = 11
  /\ self.resource = req.component /\ self.record_id = 11

\* the hide_filter setting passed to the call, and what it asks for
Setting == AttrGet(args.attr, "hide_filter")
OnComponent == PyBool(IsRes(req.component))
Resolved(d) ==
  IF req.component_name \in DOMAIN d THEN d[req.component_name]
  ELSE IF "_default" \in DOMAIN d THEN d["_default"]
  ELSE PyNone
HidePolicy ==
  /\ ~req.interactive => self.hide_filter = PyBool(TRUE)
  /\ (req.interactive /\ Setting \in {PyBool(TRUE), PyBool(FALSE)})
       => self.hide_filter = Setting
  /\ (req.interactive /\ Setting = PyNone) => self.hide_filter = OnComponent
  /\ (req.interactive /\ IsDict(Setting))
       => self.hide_filter = IF Resolved(Setting.d) = PyNone THEN OnComponent
                             ELSE Resolved(Setting.d)

\* C5 as stated: after every __call__ self.hide_filter follows the policy
\* (True for a non-interactive request; the setting if it is a boolean;
\* hidden exactly on components if it is None; a dict resolved by the
\* component name, else "_default", else None).
C5_AsStated == Called => HidePolicy

\* C5: after a __call__ whose resolved method is not "_init",
\* self.hide_filter follows the policy.
C5_HideFilterPolicy == (Called /\ self.method # "_init") => HidePolicy

C5_Witness ==
  /\ Called /\ self.method # "_init" /\ req.interactive
  /\ IsRes(req.component) /\ IsDict(Setting)
  /\ DOMAIN Setting.d = {Nil, "_default"}
  /\ Setting.d["_default"] = PyNone /\ Setting.d[Nil] = PyBool(FALSE)
  /\ self.hide_filter = PyBool(TRUE)

\* the output before the i-th view variable of _extend_view, and after it
Viewed == op = "_extend_view"
OutputBefore(i) == IF i = 1 THEN sub.output.d ELSE steps[i - 1].d
OutputAfter(i) == steps[i].d
ViewKey(i) == args.attr[i][1]
ViewValue(i) == args.attr[i][2]
\* d and e agree on every key but key
SameBut(d, e, key) ==
  /\ DOMAIN d \ {key} = DOMAIN e \ {key}
  /\ \A k \in DOMAIN d \ {key} : d[k] = e[k]
Returns(i) == IsCallable(ViewValue(i)) /\ ViewValue(i).act = "return"

\* C6: _extend_view on an interactive request and a dict output: a callable
\* that returns a dict has it merged into the output, one that returns
\* another value has it stored under its key, one that returns None has
\* its key removed; a value that is not callable and not None is stored
\* under its key as it is, also a dict.  On a request that is not
\* interactive or an output that is no dict the output stays as it is and
\* no callable is invoked.
C6_ExtendView ==
  Viewed =>
    IF req.interactive /\ IsDict(sub.output)
    THEN /\ exc = Nil => Len(steps) = Len(args.attr)
         /\ IsDict(ret)
         /\ ret.d = IF steps = <<>> THEN sub.output.d ELSE OutputAfter(Len(steps))
         /\ \A i \in 1..Len(steps) :
              /\ (Returns(i) /\ IsDict(ViewValue(i).val)) =>
                   /\ DOMAIN OutputAfter(i) =
                        DOMAIN OutputBefore(i) \cup DOMAIN ViewValue(i).val.d
                   /\ \A k \in DOMAIN ViewValue(i).val.d :
                        OutputAfter(i)[k] = ViewValue(i).val.d[k]
                   /\ \A k \in DOMAIN OutputBefore(i) \ DOMAIN ViewValue(i).val.d :
                        OutputAfter(i)[k] = OutputBefore(i)[k]
              /\ (Returns(i) /\ ~IsDict(ViewValue(i).val)
                    /\ ViewValue(i).val # PyNone) =>
                   /\ ViewKey(i) \in DOMAIN OutputAfter(i)
                   /\ OutputAfter(i)[ViewKey(i)] = ViewValue(i).val
                   /\ SameBut(OutputAfter(i), OutputBefore(i), ViewKey(i))
              /\ (Returns(i) /\ ViewValue(i).val = PyNone) =>
                   /\ ViewKey(i) \notin DOMAIN OutputAfter(i)
                   /\ SameBut(OutputAfter(i), OutputBefore(i), ViewKey(i))
              /\ (~IsCallable(ViewValue(i)) /\ ViewValue(i) # PyNone) =>
                   /\ ViewKey(i) \in DOMAIN OutputAfter(i)
                   /\ OutputAfter(i)[ViewKey(i)] = ViewValue(i)
                   /\ SameBut(OutputAfter(i), OutputBefore(i), ViewKey(i))
    ELSE ret = sub.output /\ log = <<>> /\ exc = Nil

C6_Witness ==
  /\ Viewed /\ req.interactive /\ IsDict(sub.output) /\ Len(steps) = 2
  /\ DOMAIN sub.output.d = {"rheader"}
  /\ ViewKey(1) = "rheader" /\ Returns(1) /\ ViewValue(1).val = PyNone
  /\ ViewKey(2) = "sidebar" /\ IsDict(ViewValue(2)) /\ ~IsCallable(ViewValue(2))
  /\ DOMAIN ret.d = {"sidebar"} /\ ret.d["sidebar"] = ViewValue(2)

\* C2: in _extend_view a callable view variable that raises TypeError on
\* being invoked with the request lets no exception reach the caller and
\* is passed to the view as it is: output[key] is the callable.
C2_CallablePassedAsIs ==
  (Viewed /\ req.interactive /\ IsDict(sub.output)) =>
    \A i \in 1..Len(steps) :
      (IsCallable(ViewValue(i)) /\ ViewValue(i).act = "TypeError") =>
        /\ exc # "TypeError"
        /\ ViewKey(i) \in DOMAIN OutputAfter(i)
        /\ OutputAfter(i)[ViewKey(i)] = ViewValue(i)

\* the method _permitted checks: its argument, else the method of the
\* handler
Checked == op = "_permitted"
Requested == IF marg \in {Nil, ""} THEN self.method ELSE marg
AsRead(m) == IF m \in {"list", "datatable", "datalist"} THEN "read" ELSE m
\* ignore_master_access is a tuple or list that names the component
Exempt ==
  env.writable.t = "tuple" /\ req.component_name \in env.writable.items
\* has_permission(m, component table, component id) was asked and its
\* answer is the result
ResultIsPermission(m) ==
  /\ log # <<>>
  /\ log[Len(log)] = [method |-> m, table |-> req.component.table,
                      record_id |-> req.component_id, answer |-> ret]
  /\ ret = oracle.final
\* update permission on the master record was asked and denied
MasterDenied ==
  /\ log # <<>>
  /\ log[1] = [method |-> "update", table |-> req.table,
               record_id |-> req.id, answer |-> FALSE]
  /\ ~oracle.master
PermissionRule(m) ==
  /\ (m = "create" /\ ~Exempt /\ ~oracle.master) =>
       (MasterDenied /\ ret = FALSE /\ Len(log) = 1)
  /\ (m # "create" \/ Exempt) => (ResultIsPermission(m) /\ Len(log) = 1)

\* C3 as stated: _permitted for "create" on a component returns False
\* whenever update permission on the master record is denied, unless
\* ignore_master_access is a tuple or list that contains the component
\* name; then, and for every other method, the result is exactly
\* has_permission(method, component table, component id).
C3_AsStated ==
  (Checked /\ IsRes(req.component)) => PermissionRule(Requested)

\* C3: the same with the methods "list", "datatable" and "datalist" checked
\* as "read": the permission asked is has_permission("read", component
\* table, component id).
C3_PermittedOnComponent ==
  (Checked /\ IsRes(req.component)) => PermissionRule(AsRead(Requested))

C3_Witness ==
  /\ Checked /\ IsRes(req.component) /\ marg = "create"
  /\ env.writable = Tuple({"task"})
  /\ ~oracle.master /\ oracle.final
  /\ ret = FALSE

====
